---------------------------- MODULE Spec2Model ----------------------------
(***************************************************************************)
(* SnoopClient (snoop/src/client/snoop.py): the patrol that tracks         *)
(* self-deafened members of a guild's voice channel, warns them and moves  *)
(* them out of voice when their probationary period has ended.             *)
(*                                                                         *)
(* Time is counted in units of 100 ms (datetime.now() rounded to a tenth   *)
(* of a second): TIC_SECONDS = 0.1 s is 1, two minutes are 1200, the       *)
(* default probationary period of five minutes is 3000.  The code between  *)
(* two awaits runs without interruption on asyncio's single thread, so the *)
(* clock and the members' voice states change only while every patrol task *)
(* is suspended (in asyncio.sleep, Member.move_to or TextChannel.send).    *)
(***************************************************************************)
EXTENDS Integers, Sequences, FiniteSets, TLC

\* ------------------------------------------------------------------ bounds
\* The clock stops advancing at MaxTime.
MaxTime == 3
\* How many times on_ready may fire, each firing creating one patrol task.
MaxPatrols == 2

\* ------------------------------------------------------- program constants
TIC_SECONDS == 1
DEFAULT_PERIOD == 3000
TWO_MINUTES == 1200
ALLOWANCE == 1

\* The guild's members the patrol can meet, and the patrol tasks.
Members == {"m1", "m2"}
Tasks == 1..MaxPatrols

\* A member's voice state: Member.voice is None when the member is in no
\* voice channel (connected = FALSE), else it carries the two self flags.
NoVoice == [connected |-> FALSE, self_deaf |-> FALSE, self_stream |-> FALSE]
VoiceStates == {[connected |-> TRUE, self_deaf |-> d, self_stream |-> s] :
                   d \in BOOLEAN, s \in BOOLEAN}

\* The arguments set_probationary_period is called with: timedeltas of
\* 0.2 s, of two minutes and 0.2 s, of -0.1 s, and the plain number 300.
PeriodArgs ==
    { [is_timedelta |-> TRUE,  value |-> 2 * TIC_SECONDS],
      [is_timedelta |-> TRUE,  value |-> TWO_MINUTES + 2 * TIC_SECONDS],
      [is_timedelta |-> TRUE,  value |-> 0 - TIC_SECONDS],
      [is_timedelta |-> FALSE, value |-> 300] }

\* The text channels a guild may have; the announcement channel is the one
\* named by SnoopClient.announcement_channel.
announcement_channel == "commands"
ChannelSets == { {"general"}, {"general", "commands"} }

VARIABLES
    now,                  \* datetime.now(), in units of 100 ms
    voice,                \* member -> voice state (Member.voice)
    guild_channels,       \* names of the guild's text channels
    probationary_period,  \* self._probationary_period
    suspects,             \* self._suspects: the dict, in insertion order
    pc,                   \* task -> where the patrol task is
    todo,                 \* task -> rest of tuple(self._suspects), head = current
    timer,                \* task -> time left of asyncio.sleep(TIC_SECONDS)
    crash,                \* task -> the exception that ended the task
    seen_deaf,            \* history: members a Detection Sweep saw self-deafened
    last_suspicious,      \* history: members last observed suspicious and
                          \* neither cleared nor disconnected since
    warned,               \* history: suspects warned since they were recorded
    period_at_detection,  \* history: suspect -> the period when it was recorded
    recorded_again        \* history: members whose record was removed since
                          \* the last Detection Sweep, or was removed before
                          \* it and recorded afresh by it

vars == <<now, voice, guild_channels, probationary_period, suspects, pc, todo,
          timer, crash, seen_deaf, last_suspicious, warned, period_at_detection,
          recorded_again>>

env_vars == <<voice, guild_channels>>
record_vars == <<last_suspicious, warned, period_at_detection,
                 recorded_again>>
hist_vars == <<seen_deaf, record_vars>>

\* --------------------------------------------------- the dict self._suspects
\* A dict is a sequence of <<key, value>> entries in insertion order.
Keys(d) == {d[i][1] : i \in 1..Len(d)}

Get(d, k) == LET i == CHOOSE j \in 1..Len(d) : d[j][1] = k IN d[i][2]

\* d[k] = v: a present key keeps its place, a new key goes last.
SetItem(d, k, v) ==
    IF k \in Keys(d)
    THEN [i \in 1..Len(d) |-> IF d[i][1] = k THEN <<k, v>> ELSE d[i]]
    ELSE Append(d, <<k, v>>)

\* del d[k] that deletes nothing.
DelItemKeep(d, k) == d

\* del d[k], for a key that is present.
DelItem(d, k) == SelectSeq(d, LAMBDA e : e[1] # k)

\* tuple(d): the keys in insertion order.
KeyTuple(d) == [i \in 1..Len(d) |-> d[i][1]]

\* The orders in which a channel may list the members of S.
Orderings(S) ==
    {q \in [1..Cardinality(S) -> S] : \A i, j \in 1..Cardinality(S) :
                                         q[i] = q[j] => i = j}

\* ------------------------------------------------------------ construction
\* SnoopClient.__init__: the default period and an empty dict; no patrol task
\* exists before on_ready.  The guild and its members are the platform's.
Init ==
    /\ now = 0
    /\ voice = [m \in Members |-> NoVoice]
    /\ guild_channels \in ChannelSets
    /\ probationary_period = DEFAULT_PERIOD
    /\ suspects = <<>>
    /\ pc = [t \in Tasks |-> "none"]
    /\ todo = [t \in Tasks |-> <<>>]
    /\ timer = [t \in Tasks |-> 0]
    /\ crash = [t \in Tasks |-> "none"]
    /\ seen_deaf = {}
    /\ last_suspicious = {}
    /\ warned = {}
    /\ period_at_detection = [m \in Members |-> 0]
    /\ recorded_again = {}

\* A task is between two awaits (running) exactly at "examine"; everything
\* else happens only while no task is running.
Suspended == \A t \in Tasks : pc[t] # "examine"

CanRun(t) == \A u \in Tasks \ {t} : pc[u] # "examine"

\* ------------------------------------------------------------- the platform
\* A member joins the voice channel, with any self flags.
JoinVoice(m) ==
    /\ Suspended
    /\ ~voice[m].connected
    /\ \E v \in VoiceStates : voice' = [voice EXCEPT ![m] = v]
    /\ UNCHANGED <<now, guild_channels, probationary_period, suspects, pc,
                   todo, timer, crash, hist_vars>>

\* A member leaves voice on their own.
LeaveVoice(m) ==
    /\ Suspended
    /\ voice[m].connected
    /\ voice' = [voice EXCEPT ![m] = NoVoice]
    /\ UNCHANGED <<now, guild_channels, probationary_period, suspects, pc,
                   todo, timer, crash, hist_vars>>

\* A member in voice toggles self-deafen.
ToggleDeaf(m) ==
    /\ Suspended
    /\ voice[m].connected
    /\ voice' = [voice EXCEPT ![m].self_deaf = ~voice[m].self_deaf]
    /\ UNCHANGED <<now, guild_channels, probationary_period, suspects, pc,
                   todo, timer, crash, hist_vars>>

\* A member in voice starts or stops streaming.
ToggleStream(m) ==
    /\ Suspended
    /\ voice[m].connected
    /\ voice' = [voice EXCEPT ![m].self_stream = ~voice[m].self_stream]
    /\ UNCHANGED <<now, guild_channels, probationary_period, suspects, pc,
                   todo, timer, crash, hist_vars>>

\* 100 ms pass: every running asyncio.sleep comes 100 ms closer to its end.
TimePasses(limit) ==
    /\ Suspended
    /\ now < limit
    /\ now' = now + 1
    /\ timer' = [t \in Tasks |-> IF timer[t] > 0 THEN timer[t] - 1 ELSE 0]
    /\ UNCHANGED <<env_vars, probationary_period, suspects, pc, todo, crash,
                   hist_vars>>

\* ------------------------------------------------- set_probationary_period
\* The new value of self._probationary_period.
set_period(old, period) ==
    IF period.is_timedelta THEN period.value ELSE old

set_probationary_period(period) ==
    /\ Suspended
    /\ probationary_period' = set_period(probationary_period, period)
    /\ UNCHANGED <<now, env_vars, suspects, pc, todo, timer, crash, hist_vars>>

\* ----------------------------------------------------------------- on_ready
\* on_ready: create_task(self._patrol()); the new task runs when scheduled.
on_ready(t) ==
    /\ Suspended
    /\ pc[t] = "none"
    /\ \A u \in Tasks : u < t => pc[u] # "none"
    /\ pc' = [pc EXCEPT ![t] = "sleep"]
    /\ UNCHANGED <<now, env_vars, probationary_period, suspects, todo, timer,
                   crash, hist_vars>>

\* ---------------------------------------------------------- Detection Sweep
\* _is_suspicious without its self_deaf test.
is_suspicious_not_streaming(v) == ~v.self_stream

\* _is_suspicious, on the member's voice state.
is_suspicious(v) == v.self_deaf /\ ~v.self_stream

\* without_suspects that filters nothing.
without_suspects_all(members, d) == members

\* without_suspects: the listed members that are no key of the dict.
without_suspects(members, d) == SelectSeq(members, LAMBDA m : m \notin Keys(d))

\* _mark_suspicious keeping the time of detection of a member that had a
\* record before: the record of a member recorded again starts at time 0.
mark_suspicious_reusing(d, m, t) ==
    SetItem(d, m, IF m \in recorded_again THEN 0 ELSE t)

\* _mark_suspicious: self._suspects[member] = datetime.now().
mark_suspicious(d, m, t) == SetItem(d, m, t)

\* The loop over one channel's candidates.
RECURSIVE mark_each(_, _, _, _)
mark_each(d, candidates, vc, t) ==
    IF candidates = <<>> THEN d
    ELSE mark_each(IF is_suspicious(vc[Head(candidates)])
                   THEN mark_suspicious(d, Head(candidates), t) ELSE d,
                   Tail(candidates), vc, t)

\* _find_suspects over the guild's voice channel, whose members the platform
\* lists in the order `listing`; vc is the members' voice states, t the time.
find_suspects(d, listing, vc, t) ==
    mark_each(d, without_suspects(listing, d), vc, t)

\* -------------------------------------------------------- probation policy
\* _probation_period_ended with > in place of >=.
probation_period_ended_strict(d, m, period, t) ==
    IF m \notin Keys(d) THEN FALSE
    ELSE t > Get(d, m) + period

\* _probation_period_ended with the period in force when the suspect was
\* recorded in place of the current one.
probation_period_ended_frozen(d, m, period, t) ==
    IF m \notin Keys(d) THEN FALSE
    ELSE t >= Get(d, m) + period_at_detection[m]

\* _probation_period_ended
probation_period_ended(d, m, period, t) ==
    IF m \notin Keys(d) THEN FALSE
    ELSE LET time_detected == Get(d, m)
             probation_end == time_detected + period
         IN  t >= probation_end

\* _probation_end_approaching as its docstring words it: the period "will
\* end within 2 minutes".
probation_end_approaching_within(d, m, period, t) ==
    IF m \notin Keys(d) THEN FALSE
    ELSE t >= Get(d, m) + period - TWO_MINUTES - ALLOWANCE

\* _probation_end_approaching without its allowance: datetime equality.
probation_end_approaching_exact(d, m, period, t) ==
    IF m \notin Keys(d) THEN FALSE
    ELSE t = Get(d, m) + period - TWO_MINUTES

\* _probation_end_approaching
probation_end_approaching(d, m, period, t) ==
    IF m \notin Keys(d) THEN FALSE
    ELSE LET time_detected == Get(d, m)
             probation_end == time_detected + period
             almost_end == probation_end - TWO_MINUTES
         IN  almost_end - ALLOWANCE <= t /\ t <= almost_end + ALLOWANCE

\* _get_announcement_channel: dc.utils.get(guild.channels, name=...), which is
\* None when no channel has the name.
get_announcement_channel(channels) ==
    IF announcement_channel \in channels THEN announcement_channel ELSE "None"

\* ------------------------------------------------------------- Patrol Loop
\* An exception leaves _patrol: nothing catches it, the task ends.
Raise(t, exception) ==
    /\ pc' = [pc EXCEPT ![t] = "dead"]
    /\ crash' = [crash EXCEPT ![t] = exception]

\* History: the record of member m has ended, by a clear or a disconnect.
Forget(m) ==
    /\ last_suspicious' = last_suspicious \ {m}
    /\ warned' = warned \ {m}
    /\ period_at_detection' = [period_at_detection EXCEPT ![m] = 0]
    /\ recorded_again' = recorded_again \cup {m}

\* The for loop of _examine_all_suspects goes to its next member; after the
\* last one _patrol goes to asyncio.sleep(TIC_SECONDS).
NextSuspect(t) ==
    /\ todo' = [todo EXCEPT ![t] = Tail(todo[t])]
    /\ pc' = [pc EXCEPT ![t] = IF Tail(todo[t]) = <<>> THEN "sleep" ELSE "examine"]
    /\ timer' = [timer EXCEPT ![t] = IF Tail(todo[t]) = <<>> THEN TIC_SECONDS ELSE @]

\* One turn of _patrol's loop up to the first suspect's examination:
\* wait_until_ready (the client is ready), _find_suspects, and the
\* tuple(self._suspects) that _examine_all_suspects iterates.
patrol(t) ==
    /\ CanRun(t)
    /\ pc[t] = "sleep"
    /\ timer[t] = 0
    /\ \E listing \in Orderings({m \in Members : voice[m].connected}) :
         LET d == find_suspects(suspects, listing, voice, now)
             looked_at == {m \in Members : voice[m].connected /\ m \notin Keys(suspects)}
             recorded == Keys(d) \ Keys(suspects)
         IN  /\ suspects' = d
             /\ todo' = [todo EXCEPT ![t] = KeyTuple(d)]
             /\ pc' = [pc EXCEPT ![t] = IF d = <<>> THEN "sleep" ELSE "examine"]
             /\ timer' = [timer EXCEPT ![t] = IF d = <<>> THEN TIC_SECONDS ELSE @]
             /\ seen_deaf' = seen_deaf \cup {m \in looked_at : voice[m].self_deaf}
             /\ last_suspicious' = (last_suspicious \ looked_at) \cup
                    {m \in looked_at : voice[m].self_deaf /\ ~voice[m].self_stream}
             /\ warned' = warned \ recorded
             /\ period_at_detection' = [m \in Members |->
                                IF m \in recorded THEN probationary_period
                                ELSE period_at_detection[m]]
             /\ recorded_again' = recorded_again \cap recorded
    /\ UNCHANGED <<now, env_vars, probationary_period, crash>>

\* _examine_suspect with the elapsed time tested before self_deaf.
examine_branch_time_first(v, d, m, period, t) ==
    IF ~v.connected THEN "raise"
    ELSE IF probation_period_ended(d, m, period, t) THEN "snoop"
    ELSE IF ~v.self_deaf THEN "clear"
    ELSE IF probation_end_approaching(d, m, period, t) THEN "sniff"
    ELSE "pass"

\* _examine_suspect with the warning tested before self_deaf.
examine_branch_warn_first(v, d, m, period, t) ==
    IF ~v.connected THEN "raise"
    ELSE IF probation_end_approaching(d, m, period, t) THEN "sniff"
    ELSE IF ~v.self_deaf THEN "clear"
    ELSE IF probation_period_ended(d, m, period, t) THEN "snoop"
    ELSE "pass"

\* The branch _examine_suspect takes for a suspect with voice state v:
\* "raise" when suspect.voice is None (None has no attribute self_deaf).
examine_branch(v, d, m, period, t) ==
    IF ~v.connected THEN "raise"
    ELSE IF ~v.self_deaf THEN "clear"
    ELSE IF probation_period_ended(d, m, period, t) THEN "snoop"
    ELSE IF probation_end_approaching(d, m, period, t) THEN "sniff"
    ELSE "pass"

\* _examine_suspect, up to its first await or its return.
examine_suspect(t) ==
    /\ pc[t] = "examine"
    /\ LET suspect == Head(todo[t])
           branch == examine_branch(voice[suspect], suspects, suspect,
                                    probationary_period, now)
       IN
       CASE branch = "raise" ->
                /\ Raise(t, "voice is None")
                /\ UNCHANGED <<suspects, todo, timer, record_vars>>
         [] branch = "clear" ->
                \* del self._suspects[suspect]
                IF suspect \in Keys(suspects)
                THEN /\ suspects' = DelItem(suspects, suspect)
                     /\ NextSuspect(t)
                     /\ Forget(suspect)
                     /\ UNCHANGED crash
                ELSE /\ Raise(t, "KeyError")
                     /\ UNCHANGED <<suspects, todo, timer, record_vars>>
         [] branch = "snoop" ->
                \* _handle_snoop, _disconnect_snoop: await snoop.move_to(None)
                /\ pc' = [pc EXCEPT ![t] = "move_to"]
                /\ UNCHANGED <<suspects, todo, timer, crash, record_vars>>
         [] branch = "sniff" ->
                \* _sniff: await channel.send(...), on the channel found
                IF get_announcement_channel(guild_channels) = "None"
                THEN /\ Raise(t, "channel is None")
                     /\ UNCHANGED <<suspects, todo, timer, record_vars>>
                ELSE /\ pc' = [pc EXCEPT ![t] = "send_sniff"]
                     /\ UNCHANGED <<suspects, todo, timer, crash, record_vars>>
         [] OTHER ->
                /\ NextSuspect(t)
                /\ UNCHANGED <<suspects, crash, record_vars>>
    /\ UNCHANGED <<now, env_vars, probationary_period, seen_deaf>>

\* snoop.move_to(None) returns: the member is out of voice (the platform
\* refuses the move of a member who is in no voice channel, see
\* move_to_raises); _disconnect_snoop deletes the entry and _announce_snoop
\* reaches its channel.send.
move_to_returns(t) ==
    /\ CanRun(t)
    /\ pc[t] = "move_to"
    /\ LET snoop == Head(todo[t]) IN
       /\ voice[snoop].connected
       /\ voice' = [voice EXCEPT ![snoop] = NoVoice]
       /\ IF snoop \notin Keys(suspects)
          THEN /\ Raise(t, "KeyError")
               /\ UNCHANGED <<suspects, record_vars>>
          ELSE /\ suspects' = DelItem(suspects, snoop)
               /\ Forget(snoop)
               /\ IF get_announcement_channel(guild_channels) = "None"
                  THEN Raise(t, "channel is None")
                  ELSE /\ pc' = [pc EXCEPT ![t] = "send_bark"]
                       /\ UNCHANGED crash
    /\ UNCHANGED <<now, guild_channels, probationary_period, todo, timer,
                   seen_deaf>>

\* snoop.move_to(None) raises (the network, a missing permission, a member
\* who is in no voice channel any more).
move_to_raises(t) ==
    /\ CanRun(t)
    /\ pc[t] = "move_to"
    /\ Raise(t, "HTTPException")
    /\ UNCHANGED <<now, env_vars, probationary_period, suspects, todo, timer,
                   hist_vars>>

\* channel.send returns, in _sniff or in _announce_snoop.
send_returns(t) ==
    /\ CanRun(t)
    /\ pc[t] \in {"send_sniff", "send_bark"}
    /\ warned' = IF pc[t] = "send_sniff" THEN warned \cup {Head(todo[t])} ELSE warned
    /\ NextSuspect(t)
    /\ UNCHANGED <<now, env_vars, probationary_period, suspects, crash,
                   seen_deaf, last_suspicious, period_at_detection,
                   recorded_again>>

\* channel.send raises.
send_raises(t) ==
    /\ CanRun(t)
    /\ pc[t] \in {"send_sniff", "send_bark"}
    /\ Raise(t, "HTTPException")
    /\ UNCHANGED <<now, env_vars, probationary_period, suspects, todo, timer,
                   hist_vars>>

\* ------------------------------------------------------------ specification
\* The platform's part: what happens around the client.
Platform ==
    \/ \E m \in Members : JoinVoice(m)
    \/ \E m \in Members : LeaveVoice(m)
    \/ \E m \in Members : ToggleDeaf(m)
    \/ \E m \in Members : ToggleStream(m)
    \/ TimePasses(MaxTime)

\* One patrol: on_ready fires once, when the session is established.
Next ==
    \/ Platform
    \/ \E period \in PeriodArgs : set_probationary_period(period)
    \/ on_ready(1)
    \/ patrol(1)
    \/ examine_suspect(1)
    \/ move_to_returns(1)
    \/ move_to_raises(1)
    \/ send_returns(1)
    \/ send_raises(1)

Spec == Init /\ [][Next]_vars

\* Reconnects: discord.py calls on_ready again whenever the session is
\* established anew, and every call creates one more patrol task. The
\* patrols are followed with a single member in the guild's voice channels.
LoneMember == "m1"

PlatformLoneMember ==
    \/ JoinVoice(LoneMember)
    \/ LeaveVoice(LoneMember)
    \/ ToggleDeaf(LoneMember)
    \/ ToggleStream(LoneMember)
    \/ TimePasses(MaxTime)

\* The periods a caller means to set: durations that are not negative.
DurationArgs == {period \in PeriodArgs : period.is_timedelta /\ period.value >= 0}

NextReconnect ==
    \/ PlatformLoneMember
    \/ \E period \in DurationArgs : set_probationary_period(period)
    \/ \E t \in Tasks : on_ready(t)
    \/ \E t \in Tasks : patrol(t)
    \/ \E t \in Tasks : examine_suspect(t)
    \/ \E t \in Tasks : move_to_returns(t)
    \/ \E t \in Tasks : move_to_raises(t)
    \/ \E t \in Tasks : send_returns(t)
    \/ \E t \in Tasks : send_raises(t)

SpecReconnect == Init /\ [][NextReconnect]_vars

\* ------------------------------------------------- the five minute scenario
\* The clock of the scenario stops at ScenarioEnd, just after five minutes.
ScenarioEnd == 3002

\* The first member is in voice, self-deafened and not streaming, when the
\* client is constructed with its default period of five minutes; the guild
\* has the announcement channel; nobody else is in voice.
InitScenario ==
    /\ now = 0
    /\ voice = [m \in Members |->
                  IF m = "m1"
                  THEN [connected |-> TRUE, self_deaf |-> TRUE, self_stream |-> FALSE]
                  ELSE NoVoice]
    /\ guild_channels = {"general", "commands"}
    /\ probationary_period = DEFAULT_PERIOD
    /\ suspects = <<>>
    /\ pc = [t \in Tasks |-> "none"]
    /\ todo = [t \in Tasks |-> <<>>]
    /\ timer = [t \in Tasks |-> 0]
    /\ crash = [t \in Tasks |-> "none"]
    /\ seen_deaf = {}
    /\ last_suspicious = {}
    /\ warned = {}
    /\ period_at_detection = [m \in Members |-> 0]
    /\ recorded_again = {}

\* The 100 ms tick: time passes only while the patrol is in its
\* asyncio.sleep(TIC_SECONDS), and the patrol wakes as soon as it is over.
Tick100ms ==
    /\ pc[1] = "sleep"
    /\ timer[1] > 0
    /\ TimePasses(ScenarioEnd)

\* The member stays as it is, the period is left alone, no platform call
\* fails.
NextScenario ==
    \/ on_ready(1)
    \/ patrol(1)
    \/ examine_suspect(1)
    \/ move_to_returns(1)
    \/ send_returns(1)
    \/ Tick100ms

SpecScenario == InitScenario /\ [][NextScenario]_vars

\* ================================================================== claims
\* The task of the one patrol, and the suspect it is examining.
Examining(m) ==
    /\ pc[1] = "examine"
    /\ todo[1] # <<>>
    /\ Head(todo[1]) = m

\* C1: a member whom no Detection Sweep ever observed self-deafened is never
\* a key of the Suspect Registry.
C1_NeverDeafNeverSuspect == Keys(suspects) \subseteq seen_deaf

\* C1 witness: a Detection Sweep has just looked at a member in voice who was
\* never seen self-deafened, and recorded another member.
C1_Witness ==
    /\ pc[1] = "examine"
    /\ \E m \in Members \ seen_deaf :
         /\ voice[m].connected
         /\ m \notin Keys(suspects)
         /\ Keys(suspects) # {}

\* C2: when the Examination Sweep observes self_deaf = FALSE for a tracked
\* suspect, that examination removes the suspect from the registry and asks
\* for no disconnect; a disconnect is only ever asked for a member that is in
\* the registry and observed self-deafened, so the cleared suspect is never
\* moved out of voice in that episode.
C2_ClearedNotDisconnected ==
    /\ [][\A m \in Members :
            (Examining(m) /\ m \in Keys(suspects) /\ voice[m].connected
               /\ ~voice[m].self_deaf)
            => (/\ m \notin Keys(suspects')
                /\ voice'[m] = voice[m]
                /\ pc'[1] \in {"examine", "sleep"})]_vars
    /\ [][(pc[1] # "move_to" /\ pc'[1] = "move_to")
            => (/\ Head(todo'[1]) \in Keys(suspects)
                /\ voice[Head(todo'[1])].self_deaf)]_vars

\* C2 witness: a suspect recorded earlier under the five minute period is
\* examined after it un-deafened, before the period has ended.
C2_Witness ==
    \E m \in Keys(suspects) :
        /\ Examining(m)
        /\ voice[m].connected /\ ~voice[m].self_deaf
        /\ probationary_period = DEFAULT_PERIOD
        /\ Get(suspects, m) < now

\* The members of a sequence.
Range(q) == {q[i] : i \in 1..Len(q)}

\* The examination of m meets a tracked suspect in voice whose probationary
\* period, as set now, has ended.
ExaminingEnded(m) ==
    /\ Examining(m)
    /\ m \in Keys(suspects)
    /\ voice[m].connected
    /\ now >= Get(suspects, m) + probationary_period

C4_IOFailureKeepsPatrolling ==
    \A t \in Tasks :
        (crash[t] = "HTTPException" /\ probationary_period >= 0) => pc[t] # "dead"

\* C5: set_probationary_period called with a value that is no duration, or
\* with a negative duration, leaves the probationary period unchanged.
C5_InvalidPeriodRejected ==
    [][\A period \in PeriodArgs :
         ((~period.is_timedelta \/ period.value < 0)
            /\ set_probationary_period(period))
         => probationary_period' = probationary_period]_vars

InVoice == {m \in Members : voice[m].connected}

\* C7: the Detection Sweep is idempotent: a second sweep over unchanged voice
\* states, at the same or a later time and whatever the order in which the
\* channel lists its members, leaves the registry as the first one left it;
\* and no step changes the detected_at of a member that stays in the registry.
C7_DetectionIdempotent ==
    /\ [](\A first \in Orderings(InVoice), second \in Orderings(InVoice) :
          \A later \in {now, now + TIC_SECONDS} :
            LET once == find_suspects(suspects, first, voice, now)
            IN  /\ find_suspects(once, second, voice, later) = once
                /\ \A m \in Keys(suspects) : Get(once, m) = Get(suspects, m))
    /\ [][\A m \in Keys(suspects) \cap Keys(suspects') :
            Get(suspects', m) = Get(suspects, m)]_vars

\* C7 witness: a sweep is about to run with one suspicious member already
\* recorded at an earlier time and another suspicious member to record.
C7_Witness ==
    /\ pc[1] = "sleep" /\ timer[1] = 0
    /\ \E m \in Keys(suspects) :
         /\ Get(suspects, m) < now
         /\ voice[m].connected /\ is_suspicious(voice[m])
    /\ \E m \in InVoice \ Keys(suspects) : is_suspicious(voice[m])

\* C9 as stated (for a period that is no negative duration): once the period
\* has been set to another value than the one in force at detection, every
\* tracked suspect is disconnected at the first examination with
\* now >= detected_at + period.
C9_EndedUnderNewPeriodDisconnected ==
    [][\A m \in Members :
         (/\ ExaminingEnded(m)
          /\ probationary_period >= 0
          /\ period_at_detection[m] # probationary_period)
         => pc'[1] = "move_to"]_vars

\* C9 amended: for every tracked suspect observed self-deafened, disconnect
\* and warning are decided with the period as it is set at the examination,
\* whatever it was at detection: the move is asked for exactly when
\* now >= detected_at + period, and otherwise the warning is asked for
\* exactly when now is within 0.1 s of detected_at + period - 2 min.
C9_CurrentPeriodDecides ==
    [][\A m \in Members :
         (Examining(m) /\ m \in Keys(suspects) /\ voice[m].connected
            /\ voice[m].self_deaf)
         => LET probation_end == Get(suspects, m) + probationary_period
                ended == now >= probation_end
                approaching == /\ now >= probation_end - TWO_MINUTES - ALLOWANCE
                               /\ now <= probation_end - TWO_MINUTES + ALLOWANCE
                warning == \/ pc'[1] = "send_sniff"
                           \/ crash'[1] = "channel is None"
            IN  /\ (pc'[1] = "move_to") <=> ended
                /\ warning <=> (~ended /\ approaching)]_vars

\* C9 witness: a self-deafened suspect recorded under a longer period is
\* examined when the shorter period set since has ended and the one in force
\* at its detection has not.
C9_Witness ==
    \E m \in Keys(suspects) :
        /\ Examining(m)
        /\ voice[m].connected /\ voice[m].self_deaf
        /\ probationary_period >= 0
        /\ probationary_period < period_at_detection[m]
        /\ now >= Get(suspects, m) + probationary_period
        /\ now < Get(suspects, m) + period_at_detection[m]

\* C10: a guild without a text channel named announcement_channel never ends
\* the Patrol Loop: the warning or announcement is skipped silently (stated
\* for a period that is no negative duration).
C10_MissingChannelKeepsPatrolling ==
    \A t \in Tasks :
        (crash[t] = "channel is None" /\ probationary_period >= 0) => pc[t] # "dead"

\* A warning, or a disconnect, is asked of the platform in this step.
WarningSent == pc[1] # "send_sniff" /\ pc'[1] = "send_sniff"

DisconnectAsked == pc[1] # "move_to" /\ pc'[1] = "move_to"

C11_DisconnectedOnlyIfSuspicious ==
    [][(DisconnectAsked /\ probationary_period >= 0)
         => is_suspicious(voice[Head(todo'[1])])]_vars

\* The examination of m has decided and returned, or gone to the next
\* suspect, without asking anything of the platform.
NoPlatformCall == pc'[1] \in {"examine", "sleep"} /\ crash' = crash

\* The examination of m calls _sniff: channel.send is awaited, or the guild
\* has no announcement channel to send on.
SniffCalled ==
    /\ pc[1] = "examine"
    /\ \/ pc'[1] = "send_sniff"
       \/ crash[1] = "none" /\ crash'[1] = "channel is None"

C18_DepartedSuspectKeepsPatrolling ==
    \A t \in Tasks : crash[t] = "voice is None" => pc[t] # "dead"

\* C19: with no platform I/O failure, every member that stays in voice
\* self-deafened and not streaming is eventually disconnected, removed and
\* announced; so the patrol, which alone disconnects members, never ends on
\* a suspect that left voice while another member is in voice self-deafened
\* and not streaming.
C19_PatrolOutlivesSuspiciousMembers ==
    \A m \in Members :
        (pc[1] = "dead" /\ crash[1] = "voice is None")
        => ~(voice[m].connected /\ is_suspicious(voice[m]))

\* C14: every member in the registry when an Examination Sweep starts is
\* examined in that sweep, none skipped: a sweep that meets a suspect that
\* left voice does not stop with members of its snapshot not yet examined.
C14_NoSuspectSkipped ==
    (pc[1] = "dead" /\ crash[1] = "voice is None") => Len(todo[1]) <= 1

\* C16: a member that is not in the registry, whether never recorded or
\* removed by a clear or a disconnect, and that a Detection Sweep observes
\* in voice self-deafened and not streaming is inserted with detected_at
\* the time of that sweep, so a period that is a positive duration has not
\* ended for it at that sweep; a record removed earlier leaves no timestamp
\* behind.
C16_RecordedAgainAfresh ==
    [][\A m \in Members :
         (/\ pc[1] = "sleep" /\ pc'[1] = "examine"
          /\ m \notin Keys(suspects)
          /\ voice[m].connected /\ is_suspicious(voice[m]))
         => /\ m \in Keys(suspects')
            /\ Get(suspects', m) = now
            /\ probationary_period > 0
                 => ~probation_period_ended(suspects', m, probationary_period, now)]_vars

\* C16 witness: a member whose earlier record was removed has been recorded
\* again by the Detection Sweep of this tick, at a later time than 0.
C16_Witness ==
    \E m \in Keys(suspects) :
        /\ m \in recorded_again
        /\ Get(suspects, m) = now
        /\ now > 0
        /\ pc[1] = "examine"

\* C12: removing from the registry a member that is not in it is a no-op
\* that leaves the registry as it is and the patrol running: no patrol ever
\* ends on the missing key.
C12_MissingKeyKeepsPatrolling ==
    \A t \in Tasks : crash[t] = "KeyError" => pc[t] # "dead"

\* C17: however often on_ready fires, no two examinations of one suspect
\* are in flight at once and no suspect is disconnected twice for one
\* registry record: never are two disconnects awaited at once for one
\* record whose period has ended.
C17_OneDisconnectInFlight ==
    \A t, u \in Tasks : \A m \in Keys(suspects) :
        (/\ t # u
         /\ pc[t] = "move_to" /\ Head(todo[t]) = m
         /\ now >= Get(suspects, m) + probationary_period)
        => ~(pc[u] = "move_to" /\ Head(todo[u]) = m)

=============================================================================
